---------------------------- MODULE Spec2Model ----------------------------
(***************************************************************************)
(* Model of bolter: push of multi-platform binaries as an OCI index, pull  *)
(* and run with a local cache, and credential resolution.                  *)
(*                                                                         *)
(* Strings are sequences of tokens.  A token is either one of the          *)
(* separator characters the code looks at ("/", "=", "-", ":", "_", ".")   *)
(* or a maximal run of other characters ("linux", "amd64").  Splitting,    *)
(* prefix tests and replacement are then computed as the Go code computes  *)
(* them on characters; concatenation is \o.  File contents are sequences   *)
(* of one-character strings.                                               *)
(***************************************************************************)
EXTENDS Integers, Sequences, FiniteSets, TLC

VARIABLES
    registry,   \* contents stored in the remote repository (blobs, manifests, indexes)
    tags,       \* tag -> descriptor of the tagged content, or None
    fs,         \* local files written by pull/run: path -> file or None
    meta,       \* metadata.json records of the cache: path -> record or None
    push,       \* the running push command: position, inputs, descriptors so far
    pushes,     \* number of push commands started
    ops,        \* number of pull/run commands executed
    faults,     \* number of pull/run commands during which the environment failed
    lastOp,     \* outcome of the pull/run that has just returned, or None
    tagSrc,     \* history: the binaries (with the bytes read) of the push that moved the tag
    pulledOk,   \* history: platforms a Pull has returned success for
    slotFilled, \* history: platforms whose cache slot a successful Pull stored the binary in
    auth,       \* credential resolution: inputs and the credential handed to the client
    find,       \* platform resolution: index, target and result
    media,      \* media-type mapping: platform and the type returned
    race,       \* two downloads into one cache slot: the file and each writer's position
    slot        \* cache layout: two invocations' keys and the paths of their slots

vars == <<registry, tags, fs, meta, push, pushes, ops, faults, lastOp, tagSrc,
          pulledOk, slotFilled, auth, find, media, race, slot>>

None == "none"                       \* no error, no result
NilPlatform == [nil |-> TRUE]        \* a descriptor's platform pointer is nil
NoDesc == [nil |-> TRUE]             \* no descriptor (an unset tag, an index not built yet)
NoFile == [exists |-> FALSE]         \* no file at a path
NoOp == [op |-> "none"]              \* no pull/run has just returned

---------------------------------------------------------------------------
(* String helpers (package strings, as used by the code)                   *)

RECURSIVE IndexOf(_, _, _)
\* index of the first occurrence of token c in s at or after position i, 0 if none
IndexOf(s, c, i) ==
    IF i > Len(s) THEN 0
    ELSE IF s[i] = c THEN i
    ELSE IndexOf(s, c, i + 1)

Contains(s, c) == IndexOf(s, c, 1) # 0

RECURSIVE Split(_, _)
\* strings.Split(s, sep): all fields between occurrences of sep
Split(s, sep) ==
    LET i == IndexOf(s, sep, 1)
    IN  IF i = 0 THEN <<s>>
        ELSE <<SubSeq(s, 1, i - 1)>> \o Split(SubSeq(s, i + 1, Len(s)), sep)

\* strings.SplitN(s, sep, 2): cut at the first sep only
SplitN2(s, sep) ==
    LET i == IndexOf(s, sep, 1)
    IN  IF i = 0 THEN <<s>>
        ELSE <<SubSeq(s, 1, i - 1), SubSeq(s, i + 1, Len(s))>>

\* strings.ReplaceAll(s, old, new) for single-character old and new
ReplaceAll(s, old, new) ==
    [i \in 1..Len(s) |-> IF s[i] = old THEN new ELSE s[i]]

HasPrefix(s, p) ==
    /\ Len(p) <= Len(s)
    /\ SubSeq(s, 1, Len(p)) = p

TrimPrefix(s, p) ==
    IF HasPrefix(s, p) THEN SubSeq(s, Len(p) + 1, Len(s)) ELSE s

RECURSIVE HasSubstr(_, _, _)
\* strings.Contains(s, sub) for a multi-token sub
HasSubstr(s, sub, i) ==
    IF i + Len(sub) - 1 > Len(s) THEN FALSE
    ELSE IF SubSeq(s, i, i + Len(sub) - 1) = sub THEN TRUE
    ELSE HasSubstr(s, sub, i + 1)

RECURSIVE JoinPath(_)
\* filepath.Join: the non-empty elements separated by "/"
JoinPath(elems) ==
    IF elems = <<>> THEN <<>>
    ELSE LET rest == JoinPath(Tail(elems))
         IN  IF Head(elems) = <<>> THEN rest
             ELSE IF rest = <<>> THEN Head(elems)
             ELSE Head(elems) \o <<"/">> \o rest

Min(a, b) == IF a < b THEN a ELSE b

\* the element of a one-element set
Pick(S) == CHOOSE x \in S : TRUE

\* Body applied to value, with value computed once
Bind(value, Body(_)) == Pick({Body(v) : v \in {value}})


---------------------------------------------------------------------------
(* Bounds of the model                                                     *)

MaxBindings == 2    \* --bin flags given to one push
MaxPushes == 1      \* push commands started in one behaviour
MaxOps == 2         \* pull/run commands executed in one behaviour
MaxWritten == 1     \* bytes an interrupted copy can have written
MaxFaults == 1      \* pull/run commands during which the environment fails
MaxChunk == 2       \* bytes one Write of io.Copy can carry

---------------------------------------------------------------------------
(* Inputs: the files on disk at push time, the --bin arguments, the        *)
(* reference and the --platform arguments                                  *)

BytesA == <<"T", "E">>          \* contents of file appA
BytesB == <<"X">>               \* contents of file appB
BytesForeign == <<"F">>         \* layer of a manifest pushed by another producer

\* os.Stat(path) succeeds
FileExists(path) == path \in {<<"appA">>, <<"appB">>, <<"dir">>}

\* os.ReadFile(path): the bytes, or an error when the read fails (a directory,
\* a file without read permission, a file that does not exist)
ReadFile(path) ==
    IF path = <<"appA">> THEN [err |-> None, data |-> BytesA]
    ELSE IF path = <<"appB">> THEN [err |-> None, data |-> BytesB]
    ELSE [err |-> "read failed", data |-> <<>>]

BinArgs ==
    { <<"linux", "-", "musl", "/", "amd64", "=", "appA">>,
      <<"linux", "-", "musl", "/", "amd64", "=", "appB">>,
      <<"linux", "/", "musl", "-", "amd64", "=", "appB">>,
      <<"linux", "/", "amd64", "=", "dir">>,
      <<"linux", "/", "amd64", "=", "nofile">>,
      <<"linux", "/", "amd64">>,
      <<"linuxamd64", "=", "appA">>,
      <<"linux", "/", "amd64", "/", "v8", "=", "appA">> }

RECURSIVE SeqsUpTo(_, _)
\* all sequences over S of length at most n
SeqsUpTo(S, n) ==
    IF n = 0 THEN {<<>>}
    ELSE LET shorter == SeqsUpTo(S, n - 1)
         IN  shorter \cup {Append(q, x) : q \in shorter, x \in S}

PushArgs == SeqsUpTo(BinArgs, MaxBindings)

\* the reference given on the command line: reg.io/app:v1
RefArg == <<"reg", ".", "io", "/", "app", ":", "v1">>

PlatformArgs ==
    { <<>>,
      <<"linuxamd64">>,
      <<"linux", "-", "musl", "/", "amd64">>,
      <<"linux", "/", "musl", "-", "amd64">> }

\* runtime.GOOS, runtime.GOARCH of the invoking host
RuntimeGOOS == <<"linux">>
RuntimeGOARCH == <<"amd64">>

CacheDirArg == <<"cache">>      \* opts.CacheDir
OutputArgs == {<<>>, <<"out">>} \* opts.Output

---------------------------------------------------------------------------
(* Media types                                                             *)

MediaTypeImageIndex == "application/vnd.oci.image.index.v1+json"
MediaTypeImageManifest == "application/vnd.oci.image.manifest.v1+json"
MediaTypeImageConfig == "application/vnd.oci.image.config.v1+json"

\* a mapping that looks at the operating system before it looks for WASM
getMediaTypeOSFirst(goos, goarch) ==
    IF goos = <<"windows">> THEN "application/vnd.bolter.windows.exe.v1"
    ELSE IF goos = <<"darwin">> THEN "application/vnd.bolter.macho.v1"
    ELSE IF goos \in {<<"linux">>, <<"freebsd">>, <<"openbsd">>, <<"netbsd">>,
                      <<"dragonfly">>, <<"solaris">>, <<"illumos">>}
    THEN "application/vnd.bolter.elf.v1"
    ELSE IF goos = <<"plan9">> THEN "application/vnd.bolter.plan9.v1"
    ELSE IF goos = <<"aix">> THEN "application/vnd.bolter.xcoff.v1"
    ELSE IF goos = <<"js">> \/ goos = <<"wasip1">> \/ goarch = <<"wasm">>
    THEN "application/vnd.bolter.wasm.v1"
    ELSE "application/vnd.bolter.binary.v1"

getMediaTypeForPlatform(goos, goarch) ==
    IF goos = <<"js">> \/ goos = <<"wasip1">> \/ goarch = <<"wasm">>
    THEN "application/vnd.bolter.wasm.v1"
    ELSE IF goos = <<"windows">> THEN "application/vnd.bolter.windows.exe.v1"
    ELSE IF goos = <<"darwin">> THEN "application/vnd.bolter.macho.v1"
    ELSE IF goos \in {<<"linux">>, <<"freebsd">>, <<"openbsd">>, <<"netbsd">>,
                      <<"dragonfly">>, <<"solaris">>, <<"illumos">>}
    THEN "application/vnd.bolter.elf.v1"
    ELSE IF goos = <<"plan9">> THEN "application/vnd.bolter.plan9.v1"
    ELSE IF goos = <<"aix">> THEN "application/vnd.bolter.xcoff.v1"
    ELSE "application/vnd.bolter.binary.v1"

---------------------------------------------------------------------------
(* Contents and descriptors.  A content is what a digest addresses: raw    *)
(* bytes, or a JSON document given by the fields the code formats into it  *)
(* and later unmarshals from it.  The digest of a content is the content   *)
(* itself under a "sha256" label (no two contents share a digest).         *)

Raw(data) == [kind |-> "raw", data |-> data]

FromBytes(content) == <<"sha256", content>>

\* fmt.Sprintf("%s-%s", os, arch)
Title(goos, goarch) == goos \o <<"-">> \o goarch

\* the binary layer's descriptor, pushBinary
BinaryDesc(binary, data) ==
    [mediaType |-> getMediaTypeForPlatform(binary.os, binary.arch),
     digest |-> FromBytes(Raw(data)),
     size |-> Len(data),
     title |-> Title(binary.os, binary.arch)]

ConfigBytes == <<"{", "}">>

ConfigDesc ==
    [mediaType |-> MediaTypeImageConfig,
     digest |-> FromBytes(Raw(ConfigBytes)),
     size |-> Len(ConfigBytes)]

\* manifestBytes of pushBinary: config and one layer
ManifestDoc(configDesc, layerDescs) ==
    [kind |-> "manifest",
     mediaType |-> MediaTypeImageManifest,
     config |-> configDesc,
     layers |-> layerDescs]

\* manifestDesc of pushBinary: the descriptor carries the platform
ManifestDesc(doc, goos, goarch) ==
    [mediaType |-> MediaTypeImageManifest,
     digest |-> FromBytes(doc),
     platform |-> [nil |-> FALSE, os |-> goos, architecture |-> goarch]]

\* indexBytes of createAndPushIndex: the manifests in the order given
IndexDoc(manifests) ==
    [kind |-> "index",
     mediaType |-> MediaTypeImageIndex,
     manifests |-> manifests]

IndexDesc(doc) ==
    [mediaType |-> MediaTypeImageIndex,
     digest |-> FromBytes(doc),
     platform |-> NilPlatform]

\* the digests a content refers to (what oras.CopyGraph follows)
Successors(content) ==
    IF content.kind = "manifest"
    THEN {content.config.digest} \cup {content.layers[i].digest : i \in 1..Len(content.layers)}
    ELSE IF content.kind = "index"
    THEN {content.manifests[i].digest : i \in 1..Len(content.manifests)}
    ELSE {}

\* the part of store reachable from root (index -> manifests -> blobs)
Graph(root, store) ==
    LET level1 == {c \in store : FromBytes(c) \in Successors(root)}
        level2 == {c \in store : \E m \in level1 : FromBytes(c) \in Successors(m)}
    IN  {root} \cup level1 \cup level2

\* a manifest another producer pushed: one layer, no title annotation
ForeignLayerDesc ==
    [mediaType |-> "application/octet-stream",
     digest |-> FromBytes(Raw(BytesForeign)),
     size |-> Len(BytesForeign),
     title |-> <<>>]

ForeignManifest == ManifestDoc(ConfigDesc, <<ForeignLayerDesc>>)

ForeignDesc ==
    [mediaType |-> MediaTypeImageManifest,
     digest |-> FromBytes(ForeignManifest),
     platform |-> NilPlatform]

---------------------------------------------------------------------------
(* The reference, the platform and the cache layout                        *)

\* remote.NewRepository(ref): registry up to the first "/", then
\* repository ":" reference
NewRepository(ref) ==
    LET i == IndexOf(ref, "/", 1)
        path == SubSeq(ref, i + 1, Len(ref))
        j == IndexOf(path, ":", 1)
    IN  [Registry |-> SubSeq(ref, 1, i - 1),
         Repository |-> IF j = 0 THEN path ELSE SubSeq(path, 1, j - 1),
         Reference |-> IF j = 0 THEN <<>> ELSE SubSeq(path, j + 1, Len(path))]

\* createRepository: a reference whose first component has no "." and no ":"
\* is taken to be on Docker Hub
createRepository(ref) ==
    LET first == Split(ref, "/")[1]
    IN  IF ~Contains(first, ".") /\ ~Contains(first, ":")
        THEN NewRepository(<<"docker", ".", "io", "/">> \o ref)
        ELSE NewRepository(ref)

\* parsePlatform of package bolter: cut at the first "/"; the host's platform
\* when the string is empty or has no "/"
parsePlatform(platform) ==
    LET i == IndexOf(platform, "/", 1)
    IN  IF platform = <<>> \/ i = 0
        THEN [os |-> RuntimeGOOS, arch |-> RuntimeGOARCH]
        ELSE [os |-> SubSeq(platform, 1, i - 1),
              arch |-> SubSeq(platform, i + 1, Len(platform))]

getCachePathForRef(cacheDir, reg, repository, tag, goos, arch) ==
    JoinPath(<<cacheDir, ReplaceAll(reg, ":", "_"), ReplaceAll(repository, "/", "_"),
               tag, Title(goos, arch)>>)

\* metaPath of saveCacheMetadata
MetaPathForRef(cacheDir, reg, repository, tag) ==
    JoinPath(<<cacheDir, ReplaceAll(reg, ":", "_"), ReplaceAll(repository, "/", "_"),
               tag, <<"metadata", ".", "json">>>>)

Repo == createRepository(RefArg)

TargetKeys == {parsePlatform(p) : p \in PlatformArgs}

CachePaths ==
    {getCachePathForRef(CacheDirArg, Repo.Registry, Repo.Repository, Repo.Reference,
                        k.os, k.arch) : k \in TargetKeys}

FsPaths == CachePaths \cup (OutputArgs \ {<<>>})

MetaPaths == {MetaPathForRef(CacheDirArg, Repo.Registry, Repo.Repository, Repo.Reference)}

---------------------------------------------------------------------------
(* Local files                                                             *)

File(data, exec) == [exists |-> TRUE, data |-> data, exec |-> exec]

\* os.Create(path): a new file is not executable (mode 0666 less the umask), an
\* existing file is truncated and keeps its mode
Create(files, path) ==
    [files EXCEPT ![path] = File(<<>>, IF @.exists THEN @.exec ELSE FALSE)]

\* the file at path after data has been written to the open file
Write(files, path, data) ==
    [files EXCEPT ![path] = File(data, @.exec)]

\* os.Chmod(path, 0755)
Chmod(files, path) ==
    [files EXCEPT ![path] = File(@.data, TRUE)]

\* copyFile(src, dst): os.Create(dst), then io.Copy, which may stop after
\* written bytes (written = Len of the source: the copy is complete)
copyFile(files, src, dst, written) ==
    [files EXCEPT ![dst] = File(SubSeq(files[src].data, 1, written),
                                IF @.exists THEN @.exec ELSE FALSE)]

\* saveCacheMetadata: one metadata.json beside the binaries of the tag
saveCacheMetadata(metas, cacheDir, reg, repository, tag, goos, arch, digest, size) ==
    [metas EXCEPT ![MetaPathForRef(cacheDir, reg, repository, tag)] =
        [exists |-> TRUE,
         registry |-> ReplaceAll(reg, ":", "_"),
         repository |-> ReplaceAll(repository, "/", "_"),
         tag |-> tag, os |-> goos, architecture |-> arch,
         digest |-> digest, size |-> size]]

---------------------------------------------------------------------------
(* Registry client (oras), as the code uses it                             *)

\* repo.Fetch(desc): the contents stored under the descriptor's digest
Fetch(reg, desc) == {c \in reg : FromBytes(c) = desc.digest}

\* json.Unmarshal into ocispec.Index: the manifests field; a document
\* without one gives an empty list, bytes that are no JSON give an error
UnmarshalIndex(content) ==
    IF content.kind = "raw" THEN [err |-> "json", manifests |-> <<>>]
    ELSE IF content.kind = "index" THEN [err |-> None, manifests |-> content.manifests]
    ELSE [err |-> None, manifests |-> <<>>]

\* json.Unmarshal into ocispec.Manifest: the layers field
UnmarshalManifest(content) ==
    IF content.kind = "raw" THEN [err |-> "json", layers |-> <<>>]
    ELSE IF content.kind = "manifest" THEN [err |-> None, layers |-> content.layers]
    ELSE [err |-> None, layers |-> <<>>]

---------------------------------------------------------------------------
(* pull and run                                                            *)

\* the faults the environment can inject into one pull/run: the registry
\* call or the file operation that fails
Faults ==
    {"none", "resolve", "fetchIndex", "fetchManifest", "fetchLayer", "mkdir",
     "create", "copy", "chmod", "cacheMkdir", "cacheCopy", "meta"}

\* the failures the environment may still inject, n commands having failed
FaultsLeft(n) == IF n < MaxFaults THEN Faults ELSE {"none"}

\* the bytes an interrupted io.Copy may have written before it failed
WrittenFor(fault) == IF fault \in {"copy", "cacheCopy"} THEN 0..MaxWritten ELSE {0}

\* a manifest descriptor of the index matches the target
PlatformMatches(manifest, targetOS, targetArch) ==
    /\ ~manifest.platform.nil
    /\ manifest.platform.os = targetOS
    /\ manifest.platform.architecture = targetArch

RECURSIVE ScanManifestsLast(_, _, _, _)
\* the loop keeping the last match instead of returning at the first
ScanManifestsLast(manifests, targetOS, targetArch, i) ==
    IF i > Len(manifests) THEN 0
    ELSE IF ScanManifestsLast(manifests, targetOS, targetArch, i + 1) # 0
    THEN ScanManifestsLast(manifests, targetOS, targetArch, i + 1)
    ELSE IF PlatformMatches(manifests[i], targetOS, targetArch) THEN i
    ELSE 0

RECURSIVE ScanManifests(_, _, _, _)
\* the loop of findManifestForPlatform: index of the first match from i on, 0 if none
ScanManifests(manifests, targetOS, targetArch, i) ==
    IF i > Len(manifests) THEN 0
    ELSE IF PlatformMatches(manifests[i], targetOS, targetArch) THEN i
    ELSE ScanManifests(manifests, targetOS, targetArch, i + 1)

findManifestForPlatform(reg, indexDesc, targetOS, targetArch, fault) ==
    Bind(Fetch(reg, indexDesc), LAMBDA got :
        IF fault = "fetchIndex" \/ got = {}
        THEN [err |-> "fetchIndex", desc |-> NoDesc]
        ELSE Bind(UnmarshalIndex(Pick(got)), LAMBDA index :
            IF index.err # None THEN [err |-> index.err, desc |-> NoDesc]
            ELSE Bind(ScanManifests(index.manifests, targetOS, targetArch, 1), LAMBDA i :
                IF i = 0 THEN [err |-> "no manifest found", desc |-> NoDesc]
                ELSE [err |-> None, desc |-> index.manifests[i]])))

\* pullBinary losing the last byte of the layer
WriteLayerShort(files, data, output, fault, written) ==
    [err |-> None, calls |-> 2,
     fs |-> Write(Create(files, output), output, SubSeq(data, 1, Len(data) - 1))]

\* the rest of pullBinary once manifest and layer are fetched: create the
\* output file and copy the layer into it.  written: the bytes io.Copy has
\* written when fault = "copy"
WriteLayer(files, data, output, fault, written) ==
    IF fault = "mkdir" /\ Contains(output, "/")
    THEN [err |-> "mkdir", fs |-> files, calls |-> 2]
    ELSE IF fault = "create"
    THEN [err |-> "create", fs |-> files, calls |-> 2]
    ELSE IF fault = "copy"
    THEN [err |-> "copy", calls |-> 2,
          fs |-> Write(Create(files, output), output,
                       SubSeq(data, 1, Min(written, Len(data) - 1)))]
    ELSE [err |-> None, fs |-> Write(Create(files, output), output, data), calls |-> 2]

\* pullBinary creating the output file before it looks at the layers
pullBinaryCreateFirst(reg, files, manifestDesc, output, fault, written) ==
    Bind(Fetch(reg, manifestDesc), LAMBDA gotM :
        IF fault = "fetchManifest" \/ gotM = {}
        THEN [err |-> "fetchManifest", fs |-> files, calls |-> 1]
        ELSE Bind(UnmarshalManifest(Pick(gotM)), LAMBDA manifest :
            IF manifest.err # None
            THEN [err |-> manifest.err, fs |-> files, calls |-> 1]
            ELSE IF Len(manifest.layers) = 0
            THEN [err |-> "manifest has no layers", fs |-> Create(files, output),
                  calls |-> 1]
            ELSE Bind(Fetch(reg, manifest.layers[1]), LAMBDA gotL :
                IF fault = "fetchLayer" \/ gotL = {}
                THEN [err |-> "fetchLayer", fs |-> files, calls |-> 2]
                ELSE WriteLayer(files, Pick(gotL).data, output, fault, written))))

\* pullBinary: fetch the manifest and its first layer, write the layer to output
pullBinary(reg, files, manifestDesc, output, fault, written) ==
    Bind(Fetch(reg, manifestDesc), LAMBDA gotM :
        IF fault = "fetchManifest" \/ gotM = {}
        THEN [err |-> "fetchManifest", fs |-> files, calls |-> 1]
        ELSE Bind(UnmarshalManifest(Pick(gotM)), LAMBDA manifest :
            IF manifest.err # None
            THEN [err |-> manifest.err, fs |-> files, calls |-> 1]
            ELSE IF Len(manifest.layers) = 0
            THEN [err |-> "manifest has no layers", fs |-> files, calls |-> 1]
            ELSE Bind(Fetch(reg, manifest.layers[1]), LAMBDA gotL :
                IF fault = "fetchLayer" \/ gotL = {}
                THEN [err |-> "fetchLayer", fs |-> files, calls |-> 2]
                ELSE WriteLayer(files, Pick(gotL).data, output, fault, written))))

\* every top-level descriptor treated as an index
SelectManifestAsIndex(reg, descriptor, targetOS, targetArch, fault) ==
    Bind(findManifestForPlatform(reg, descriptor, targetOS, targetArch, fault),
         LAMBDA found : [err |-> found.err, desc |-> found.desc, calls |-> 1])

\* the top-level descriptor is an index or a manifest: the manifest to pull
SelectManifest(reg, descriptor, targetOS, targetArch, fault) ==
    IF descriptor.mediaType = MediaTypeImageIndex
    THEN Bind(findManifestForPlatform(reg, descriptor, targetOS, targetArch, fault),
              LAMBDA found : [err |-> found.err, desc |-> found.desc, calls |-> 1])
    ELSE IF descriptor.mediaType = MediaTypeImageManifest
    THEN [err |-> None, desc |-> descriptor, calls |-> 0]
    ELSE [err |-> "unsupported media type", desc |-> NoDesc, calls |-> 0]

\* what Pull and Run report: the result, the files and metadata left behind,
\* the registry calls made, and the path and bytes of the binary delivered
Outcome(op, target, cache, result, files, metas, calls, path, top, hit, delivered, cached) ==
    [op |-> op, os |-> target.os, arch |-> target.arch, cache |-> cache,
     result |-> result, fs |-> files, meta |-> metas, calls |-> calls, path |-> path,
     top |-> top, hit |-> hit, delivered |-> delivered, cached |-> cached,
     bytes |-> IF delivered THEN files[path].data ELSE <<>>]

\* saveCacheMetadata as Pull and Run call it; its error is only logged
SaveMeta(metas, repo, target, digest, size, fault) ==
    IF fault = "meta" THEN metas
    ELSE saveCacheMetadata(metas, CacheDirArg, repo.Registry, repo.Repository,
                           repo.Reference, target.os, target.arch, digest, size)

\* Pull after os.Chmod(outputPath): the copy into the cache slot and the metadata
PullStore(files, metas, repo, target, useCache, outputPath, cachedBinary, digest, calls, top, fault, written) ==
    Bind(Len(files[outputPath].data), LAMBDA size :
        IF useCache /\ outputPath # cachedBinary
        THEN IF fault = "cacheMkdir"
             THEN Outcome("pull", target, useCache, "ok", files, metas, calls, outputPath,
                          top, FALSE, TRUE, FALSE)
             ELSE IF fault = "cacheCopy"
             THEN Outcome("pull", target, useCache, "ok",
                          copyFile(files, outputPath, cachedBinary, Min(written, size - 1)),
                          metas, calls, outputPath, top, FALSE, TRUE, FALSE)
             ELSE Outcome("pull", target, useCache, "ok",
                          Chmod(copyFile(files, outputPath, cachedBinary, size), cachedBinary),
                          SaveMeta(metas, repo, target, digest, size, fault),
                          calls, outputPath, top, FALSE, TRUE, TRUE)
        ELSE IF useCache
        THEN Outcome("pull", target, useCache, "ok", files,
                     SaveMeta(metas, repo, target, digest, size, fault),
                     calls, outputPath, top, FALSE, TRUE, TRUE)
        ELSE Outcome("pull", target, useCache, "ok", files, metas, calls, outputPath, top,
                     FALSE, TRUE, FALSE))

\* Pull once the manifest is selected: the output path, pullBinary, os.Chmod
PullSelected(reg, files, metas, repo, target, top, sel, output, useCache, fault, written) ==
    Bind(getCachePathForRef(CacheDirArg, repo.Registry, repo.Repository, repo.Reference,
                            target.os, target.arch), LAMBDA cachedBinary :
    Bind(IF useCache /\ output = <<>> THEN cachedBinary ELSE output, LAMBDA outputPath :
        IF sel.err # None
        THEN Outcome("pull", target, useCache, sel.err, files, metas, 1 + sel.calls,
                     outputPath, top, FALSE, FALSE, FALSE)
        ELSE IF ~useCache /\ output = <<>>
        THEN Outcome("pull", target, useCache, "output path required", files, metas,
                     1 + sel.calls, outputPath, top, FALSE, FALSE, FALSE)
        ELSE Bind(pullBinary(reg, files, sel.desc, outputPath, fault, written), LAMBDA pulled :
            IF pulled.err # None
            THEN Outcome("pull", target, useCache, pulled.err, pulled.fs, metas,
                         1 + sel.calls + pulled.calls, outputPath, top, FALSE, FALSE, FALSE)
            ELSE IF fault = "chmod"
            THEN Outcome("pull", target, useCache, "chmod", pulled.fs, metas,
                         1 + sel.calls + pulled.calls, outputPath, top, FALSE, FALSE, FALSE)
            ELSE PullStore(Chmod(pulled.fs, outputPath), metas, repo, target, useCache,
                           outputPath, cachedBinary, sel.desc.digest,
                           1 + sel.calls + pulled.calls, top, fault, written))))

\* Pull(ctx, ref, opts).  fault and written say where the environment fails
Pull(reg, tagged, files, metas, ref, platform, output, useCache, fault, written) ==
    Bind(parsePlatform(platform), LAMBDA target :
    Bind(createRepository(ref), LAMBDA repo :
    Bind(tagged[repo.Reference], LAMBDA descriptor :
        IF fault = "resolve" \/ descriptor = NoDesc
        THEN Outcome("pull", target, useCache, "resolve", files, metas, 1, <<>>, "none",
                     FALSE, FALSE, FALSE)
        ELSE Bind(SelectManifest(reg, descriptor, target.os, target.arch, fault), LAMBDA sel :
                PullSelected(reg, files, metas, repo, target, descriptor.mediaType, sel,
                             output, useCache, fault, written)))))

\* executeBinary: exec.LookPath needs an executable file at the path
CanExecute(files, path) == files[path].exists /\ files[path].exec

\* Run on a cache miss or with NoCache: resolve, select, download, execute
RunDownload(reg, tagged, files, metas, repo, target, cachedBinary, cache, fault, written) ==
    Bind(tagged[repo.Reference], LAMBDA descriptor :
        IF fault = "resolve" \/ descriptor = NoDesc
        THEN Outcome("run", target, cache, "resolve", files, metas, 1, cachedBinary, "none",
                     FALSE, FALSE, FALSE)
        ELSE Bind(SelectManifest(reg, descriptor, target.os, target.arch, fault), LAMBDA sel :
            IF sel.err # None
            THEN Outcome("run", target, cache, sel.err, files, metas, 1 + sel.calls,
                         cachedBinary, descriptor.mediaType, FALSE, FALSE, FALSE)
            ELSE IF fault = "mkdir"
            THEN Outcome("run", target, cache, "mkdir", files, metas, 1 + sel.calls,
                         cachedBinary, descriptor.mediaType, FALSE, FALSE, FALSE)
            ELSE Bind(pullBinary(reg, files, sel.desc, cachedBinary, fault, written),
                      LAMBDA pulled :
                IF pulled.err # None
                THEN Outcome("run", target, cache, pulled.err, pulled.fs, metas,
                             1 + sel.calls + pulled.calls, cachedBinary,
                             descriptor.mediaType, FALSE, FALSE, FALSE)
                ELSE IF fault = "chmod"
                THEN Outcome("run", target, cache, "chmod", pulled.fs, metas,
                             1 + sel.calls + pulled.calls, cachedBinary,
                             descriptor.mediaType, FALSE, FALSE, FALSE)
                ELSE Outcome("run", target, cache, "ok", Chmod(pulled.fs, cachedBinary),
                             SaveMeta(metas, repo, target, sel.desc.digest,
                                      Len(pulled.fs[cachedBinary].data), fault),
                             1 + sel.calls + pulled.calls, cachedBinary,
                             descriptor.mediaType, FALSE, TRUE, TRUE))))

\* Run without the cache probe
RunNoProbe(reg, tagged, files, metas, ref, platform, noCache, fault, written) ==
    Bind(parsePlatform(platform), LAMBDA target :
    Bind(createRepository(ref), LAMBDA repo :
        RunDownload(reg, tagged, files, metas, repo, target,
                    getCachePathForRef(CacheDirArg, repo.Registry, repo.Repository,
                                       repo.Reference, target.os, target.arch),
                    ~noCache, fault, written)))

\* Run whose cache probe also asks for the metadata record
RunProbeMeta(reg, tagged, files, metas, ref, platform, noCache, fault, written) ==
    Bind(parsePlatform(platform), LAMBDA target :
    Bind(createRepository(ref), LAMBDA repo :
    Bind(getCachePathForRef(CacheDirArg, repo.Registry, repo.Repository, repo.Reference,
                            target.os, target.arch), LAMBDA cachedBinary :
        IF /\ ~noCache
           /\ files[cachedBinary].exists
           /\ metas[MetaPathForRef(CacheDirArg, repo.Registry, repo.Repository,
                                   repo.Reference)].exists
        THEN IF CanExecute(files, cachedBinary)
             THEN Outcome("run", target, TRUE, "ok", files, metas, 0, cachedBinary, "none",
                          TRUE, TRUE, FALSE)
             ELSE Outcome("run", target, TRUE, "exec", files, metas, 0, cachedBinary, "none",
                          TRUE, FALSE, FALSE)
        ELSE RunDownload(reg, tagged, files, metas, repo, target, cachedBinary, ~noCache,
                         fault, written))))

\* Run that probes the cache whatever NoCache says
RunAlwaysProbe(reg, tagged, files, metas, ref, platform, noCache, fault, written) ==
    Bind(parsePlatform(platform), LAMBDA target :
    Bind(createRepository(ref), LAMBDA repo :
    Bind(getCachePathForRef(CacheDirArg, repo.Registry, repo.Repository, repo.Reference,
                            target.os, target.arch), LAMBDA cachedBinary :
        IF files[cachedBinary].exists
        THEN IF CanExecute(files, cachedBinary)
             THEN Outcome("run", target, ~noCache, "ok", files, metas, 0, cachedBinary,
                          "none", TRUE, TRUE, FALSE)
             ELSE Outcome("run", target, ~noCache, "exec", files, metas, 0, cachedBinary,
                          "none", TRUE, FALSE, FALSE)
        ELSE RunDownload(reg, tagged, files, metas, repo, target, cachedBinary, ~noCache,
                         fault, written))))

\* Run(ctx, ref, args, opts): the cache probe, then the download
Run(reg, tagged, files, metas, ref, platform, noCache, fault, written) ==
    Bind(parsePlatform(platform), LAMBDA target :
    Bind(createRepository(ref), LAMBDA repo :
    Bind(getCachePathForRef(CacheDirArg, repo.Registry, repo.Repository, repo.Reference,
                            target.os, target.arch), LAMBDA cachedBinary :
        IF ~noCache /\ files[cachedBinary].exists
        THEN IF CanExecute(files, cachedBinary)
             THEN Outcome("run", target, TRUE, "ok", files, metas, 0, cachedBinary, "none",
                          TRUE, TRUE, FALSE)
             ELSE Outcome("run", target, TRUE, "exec", files, metas, 0, cachedBinary, "none",
                          TRUE, FALSE, FALSE)
        ELSE RunDownload(reg, tagged, files, metas, repo, target, cachedBinary, ~noCache,
                         fault, written))))

---------------------------------------------------------------------------
(* push                                                                    *)

\* parsePlatformMappings: the binaries, or an error for the first bad mapping
RECURSIVE parsePlatformMappings(_)
parsePlatformMappings(platforms) ==
    IF platforms = <<>> THEN [err |-> None, binaries |-> <<>>]
    ELSE
        LET platform == Head(platforms)
            parts == SplitN2(platform, "=")
            osParts == Split(parts[1], "/")
            rest == parsePlatformMappings(Tail(platforms))
        IN  IF Len(parts) # 2
            THEN [err |-> "invalid platform format", binaries |-> <<>>]
            ELSE IF Len(osParts) # 2
            THEN [err |-> "invalid platform format", binaries |-> <<>>]
            ELSE IF ~FileExists(parts[2])
            THEN [err |-> "file not found", binaries |-> <<>>]
            ELSE IF rest.err # None THEN rest
            ELSE [err |-> None,
                  binaries |-> <<[path |-> parts[2], os |-> osParts[1], arch |-> osParts[2]]>>
                               \o rest.binaries]

IdlePush ==
    [pc |-> "idle", binaries |-> <<>>, read |-> <<>>, i |-> 0,
     descs |-> <<>>, store |-> {}, indexDesc |-> NoDesc, calls |-> 0, err |-> None,
     regBefore |-> {}, tagsBefore |-> <<>>, answers |-> <<>>]


\* oras.CopyGraph(memoryStore, repo, root).  ok: everything reachable from root
\* is in the repository afterwards.  exists: the registry answers "already
\* exists".  error: any other failure; the blobs below the root may have been
\* copied already (partial)
CopyGraph(reg, store, root, outcome, partial) ==
    IF outcome = "ok" THEN [err |-> None, registry |-> reg \cup Graph(root, store)]
    ELSE IF outcome = "exists" THEN [err |-> "blob already exists", registry |-> reg]
    ELSE [err |-> "transport",
          registry |-> IF partial THEN reg \cup (Graph(root, store) \ {root}) ELSE reg]

\* the answers the registry can give to a copy of root's graph: "already
\* exists" only for content it holds
CopyOutcomes(reg, store, root) ==
    {"ok", "error"} \cup (IF Graph(root, store) \subseteq reg THEN {"exists"} ELSE {})

\* an "already exists" test that recognises no error
IsAlreadyExistsNever(err) == FALSE

\* strings.Contains(strings.ToLower(err.Error()), "already exists")
IsAlreadyExists(err) == err = "blob already exists"

\* pushBinary: read the file, build blob, config and manifest in the memory
\* store, copy the manifest's graph to the repository
pushBinary(reg, store, binary, outcome, partial) ==
    LET file == ReadFile(binary.path)
        binaryDesc == BinaryDesc(binary, file.data)
        doc == ManifestDoc(ConfigDesc, <<binaryDesc>>)
        manifestDesc == ManifestDesc(doc, binary.os, binary.arch)
        store1 == store \cup {Raw(file.data), Raw(ConfigBytes), doc}
        copy == CopyGraph(reg, store1, doc, outcome, partial)
    IN  IF file.err # None
        THEN [err |-> file.err, desc |-> NoDesc, store |-> store, registry |-> reg,
              calls |-> 0, data |-> <<>>, doc |-> doc]
        ELSE IF copy.err # None /\ ~IsAlreadyExists(copy.err)
        THEN [err |-> copy.err, desc |-> NoDesc, store |-> store1, registry |-> copy.registry,
              calls |-> 1, data |-> file.data, doc |-> doc]
        ELSE [err |-> None, desc |-> manifestDesc, store |-> store1, registry |-> copy.registry,
              calls |-> 1, data |-> file.data, doc |-> doc]

\* createAndPushIndex listing the manifests in reverse
createAndPushIndexReversed(reg, store, manifests, outcome, partial) ==
    LET doc == IndexDoc([i \in 1..Len(manifests) |-> manifests[Len(manifests) + 1 - i]])
        store1 == store \cup {doc}
        copy == CopyGraph(reg, store1, doc, outcome, partial)
    IN  IF copy.err # None /\ ~IsAlreadyExists(copy.err)
        THEN [err |-> copy.err, desc |-> NoDesc, store |-> store1, registry |-> copy.registry,
              doc |-> doc]
        ELSE [err |-> None, desc |-> IndexDesc(doc), store |-> store1,
              registry |-> copy.registry, doc |-> doc]

\* createAndPushIndex: the index lists the manifest descriptors as given
createAndPushIndex(reg, store, manifests, outcome, partial) ==
    LET doc == IndexDoc(manifests)
        indexDesc == IndexDesc(doc)
        store1 == store \cup {doc}
        copy == CopyGraph(reg, store1, doc, outcome, partial)
    IN  IF copy.err # None /\ ~IsAlreadyExists(copy.err)
        THEN [err |-> copy.err, desc |-> NoDesc, store |-> store1, registry |-> copy.registry,
              doc |-> doc]
        ELSE [err |-> None, desc |-> indexDesc, store |-> store1, registry |-> copy.registry,
              doc |-> doc]

\* a Tag call that moves the tag although it reports a failure
TagThenFail(reg, tagged, desc, reference, outcome) ==
    IF Fetch(reg, desc) = {} THEN [err |-> "tag", tags |-> tagged]
    ELSE [err |-> IF outcome = "ok" THEN None ELSE "tag",
          tags |-> [tagged EXCEPT ![reference] = desc]]

\* repo.Tag(desc, reference): the registry tags content it holds
Tag(reg, tagged, desc, reference, outcome) ==
    IF outcome # "ok" \/ Fetch(reg, desc) = {}
    THEN [err |-> "tag", tags |-> tagged]
    ELSE [err |-> None, tags |-> [tagged EXCEPT ![reference] = desc]]


---------------------------------------------------------------------------
(* State machine: one user session issuing push, pull and run commands;    *)
(* a push is followed step by step through its registry calls              *)

NoMedia == [done |-> FALSE]
NoRace == [started |-> FALSE]
NoSlot == [done |-> FALSE]
NoAuth == [op |-> "none"]
NoFind == [done |-> FALSE]

Init ==
    /\ registry = {ForeignManifest, Raw(BytesForeign), Raw(ConfigBytes)}
    /\ tags = [t \in {Repo.Reference} |-> ForeignDesc]
    /\ fs = [p \in FsPaths |-> NoFile]
    /\ meta = [p \in MetaPaths |-> [exists |-> FALSE]]
    /\ push = IdlePush
    /\ pushes = 0
    /\ ops = 0
    /\ faults = 0
    /\ lastOp = NoOp
    /\ tagSrc = [set |-> FALSE, binaries |-> <<>>, read |-> <<>>]
    /\ pulledOk = {}
    /\ slotFilled = {}
    /\ auth = NoAuth
    /\ find = NoFind
    /\ media = NoMedia
    /\ race = NoRace
    /\ slot = NoSlot

\* runPush up to the first registry call: the flag check and the parse
BeginPush(args, reg, tagged) ==
    LET parsed == parsePlatformMappings(args)
        started == [IdlePush EXCEPT !.regBefore = reg, !.tagsBefore = tagged]
    IN  IF Len(args) = 0
        THEN [started EXCEPT !.pc = "failed", !.err = "no bin specified"]
        ELSE IF parsed.err # None
        THEN [started EXCEPT !.pc = "failed", !.err = parsed.err]
        ELSE [started EXCEPT !.pc = "binaries", !.binaries = parsed.binaries, !.i = 1]

\* the push command is invoked with the --bin arguments args
StartPush(args) ==
    /\ push.pc = "idle"
    /\ pushes < MaxPushes
    /\ push' = BeginPush(args, registry, tags)
    /\ pushes' = pushes + 1
    /\ lastOp' = NoOp
    /\ UNCHANGED <<registry, tags, fs, meta, ops, faults, tagSrc, pulledOk, slotFilled,
                   auth, find, media, race, slot>>

\* one iteration of runPush's loop: pushBinary for binaries[i]
PushBinaryStep ==
    /\ push.pc = "binaries"
    /\ \E outcome \in {"ok", "exists", "error"}, partial \in BOOLEAN :
        LET r == pushBinary(registry, push.store, push.binaries[push.i], outcome, partial)
        IN  /\ r.calls = 1 => outcome \in CopyOutcomes(registry, r.store, r.doc)
            /\ registry' = r.registry
            /\ push' = IF r.err # None
                       THEN [push EXCEPT !.pc = "failed", !.err = r.err, !.store = r.store,
                                         !.calls = @ + r.calls,
                                         !.answers = IF r.calls = 1 THEN Append(@, outcome)
                                                     ELSE @]
                       ELSE [push EXCEPT !.pc = IF push.i = Len(push.binaries) THEN "index"
                                                ELSE "binaries",
                                         !.i = @ + 1,
                                         !.descs = Append(@, r.desc),
                                         !.read = Append(@, r.data),
                                         !.store = r.store,
                                         !.calls = @ + r.calls,
                                         !.answers = Append(@, outcome)]
    /\ UNCHANGED <<tags, fs, meta, pushes, ops, faults, lastOp, tagSrc, pulledOk,
                   slotFilled, auth, find, media, race, slot>>


\* runPush after the loop: createAndPushIndex
CreateIndexStep ==
    /\ push.pc = "index"
    /\ \E outcome \in {"ok", "exists", "error"}, partial \in BOOLEAN :
        LET r == createAndPushIndex(registry, push.store, push.descs, outcome, partial)
        IN  /\ outcome \in CopyOutcomes(registry, r.store, r.doc)
            /\ registry' = r.registry
            /\ push' = IF r.err # None
                       THEN [push EXCEPT !.pc = "failed", !.err = r.err, !.store = r.store,
                                         !.calls = @ + 1, !.answers = Append(@, outcome)]
                       ELSE [push EXCEPT !.pc = "tag", !.indexDesc = r.desc,
                                         !.store = r.store, !.calls = @ + 1,
                                         !.answers = Append(@, outcome)]
    /\ UNCHANGED <<tags, fs, meta, pushes, ops, faults, lastOp, tagSrc, pulledOk,
                   slotFilled, auth, find, media, race, slot>>

\* runPush's last call: repo.Tag(indexDescriptor, reference)
TagStep ==
    /\ push.pc = "tag"
    /\ \E outcome \in {"ok", "error"} :
        LET r == Tag(registry, tags, push.indexDesc, Repo.Reference, outcome)
        IN  /\ tags' = r.tags
            /\ push' = IF r.err # None
                       THEN [push EXCEPT !.pc = "failed", !.err = r.err, !.calls = @ + 1,
                                         !.answers = Append(@, "error")]
                       ELSE [push EXCEPT !.pc = "done", !.calls = @ + 1,
                                         !.answers = Append(@, "ok")]
            /\ tagSrc' = IF r.err # None THEN tagSrc
                         ELSE [set |-> TRUE, binaries |-> push.binaries, read |-> push.read]
    /\ UNCHANGED <<registry, fs, meta, pushes, ops, faults, lastOp, pulledOk, slotFilled, auth, find,
                   media, race, slot>>

\* the push command returns (or exits with an error)
PushExit ==
    /\ push.pc \in {"done", "failed"}
    /\ push' = IdlePush
    /\ UNCHANGED <<registry, tags, fs, meta, pushes, ops, faults, lastOp, tagSrc, pulledOk,
                   slotFilled, auth, find, media, race, slot>>

\* what is kept of an outcome once the files and metadata are in place
Report(o, clean) ==
    [op |-> o.op, os |-> o.os, arch |-> o.arch, cache |-> o.cache, result |-> o.result,
     calls |-> o.calls, path |-> o.path, top |-> o.top, hit |-> o.hit,
     delivered |-> o.delivered, bytes |-> o.bytes, clean |-> clean]

\* bolter pull / bolter.Pull
DoPull ==
    /\ push.pc = "idle"
    /\ ops < MaxOps
    /\ \E platform \in PlatformArgs, output \in OutputArgs, useCache \in BOOLEAN,
          fault \in FaultsLeft(faults) :
       \E written \in WrittenFor(fault) :
        \E o \in {Pull(registry, tags, fs, meta, RefArg, platform, output, useCache,
                       fault, written)} :
            /\ fs' = o.fs
            /\ meta' = o.meta
            /\ lastOp' = Report(o, fault = "none")
            /\ pulledOk' = IF o.result = "ok"
                           THEN pulledOk \cup {[os |-> o.os, arch |-> o.arch]}
                           ELSE pulledOk
            /\ slotFilled' = IF o.cached
                             THEN slotFilled \cup {[os |-> o.os, arch |-> o.arch]}
                             ELSE slotFilled
            /\ faults' = IF fault = "none" THEN faults ELSE faults + 1
    /\ ops' = ops + 1
    /\ UNCHANGED <<registry, tags, push, pushes, tagSrc, auth, find, media, race, slot>>

\* bolter run / bolter.Run
DoRun ==
    /\ push.pc = "idle"
    /\ ops < MaxOps
    /\ \E platform \in PlatformArgs, noCache \in BOOLEAN, fault \in FaultsLeft(faults) :
       \E written \in WrittenFor(fault) :
        \E o \in {Run(registry, tags, fs, meta, RefArg, platform, noCache, fault, written)} :
            /\ fs' = o.fs
            /\ meta' = o.meta
            /\ lastOp' = Report(o, fault = "none")
            /\ faults' = IF fault = "none" THEN faults ELSE faults + 1
    /\ ops' = ops + 1
    /\ UNCHANGED <<registry, tags, push, pushes, tagSrc, pulledOk, slotFilled,
                   auth, find, media, race, slot>>

Next ==
    \/ \E args \in PushArgs : StartPush(args)
    \/ PushBinaryStep
    \/ CreateIndexStep
    \/ TagStep
    \/ PushExit
    \/ DoPull
    \/ DoRun

Spec == Init /\ [][Next]_vars

---------------------------------------------------------------------------
(* Credential resolution                                                   *)

MaxAuths == 2       \* entries under "auths" in ~/.docker/config.json

HTTPS == <<"https", ":", "/", "/">>
HTTP == <<"http", ":", "/", "/">>
DockerIO == <<"docker", ".", "io">>
IndexDockerIO == <<"index", ".", "docker", ".", "io">>
IndexDockerV1 == HTTPS \o IndexDockerIO \o <<"/", "v1", "/">>

\* --username / opts.Username and --password / opts.Password
UserArgs == {<<>>, <<"alice">>}
PasswordArgs == {<<>>, <<"s3cret">>}

\* references on a private host, on Docker Hub by default, on Docker Hub by name
AuthRefs ==
    { RefArg,
      <<"app", ":", "v1">>,
      IndexDockerIO \o <<"/", "app", ":", "v1">> }

\* base64.StdEncoding.DecodeString on the auth strings a config file may hold
DecodeString(encoded) ==
    IF encoded = "Ym9iOnB3" THEN [err |-> None, text |-> <<"bob", ":", "pw">>]
    ELSE IF encoded = "Ym9icHc=" THEN [err |-> None, text |-> <<"bobpw">>]
    ELSE IF encoded = "Y2Fyb2w6cDp3" THEN [err |-> None, text |-> <<"carol", ":", "p", ":", "w">>]
    ELSE IF encoded = "Ym9iOg==" THEN [err |-> None, text |-> <<"bob", ":">>]
    ELSE IF encoded = "" THEN [err |-> None, text |-> <<>>]
    ELSE [err |-> "illegal base64 data", text |-> <<>>]

AuthStrings == {"", "%%%", "Ym9icHc=", "Ym9iOnB3", "Y2Fyb2w6cDp3", "Ym9iOg=="}

\* keys a config file may hold under "auths"
ConfigKeys == {<<"reg", ".", "io">>, HTTPS \o <<"reg", ".", "io">>, DockerIO, IndexDockerV1}

\* ~/.docker/config.json: missing or unreadable, not JSON, or its auths
DockerConfigs ==
    {[readable |-> FALSE, json |-> FALSE, auths |-> <<>>],
     [readable |-> TRUE, json |-> FALSE, auths |-> <<>>]}
    \cup {[readable |-> TRUE, json |-> TRUE, auths |-> a] :
            a \in UNION {[K -> AuthStrings] :
                            K \in {K \in SUBSET ConfigKeys : Cardinality(K) <= MaxAuths}}}

normalizeRegistry(host) ==
    LET r == TrimPrefix(TrimPrefix(host, HTTPS), HTTP)
    IN  IF r = DockerIO \/ r = IndexDockerIO THEN IndexDockerV1 ELSE r

\* registryKeys of getDockerCredentials, in the order they are tried
registryKeys(host) ==
    <<host, normalizeRegistry(host), HTTPS \o host,
      TrimPrefix(host, DockerIO \o <<"/">>)>>
    \o (IF HasSubstr(host, DockerIO, 1) \/ host = DockerIO
        THEN <<IndexDockerV1, IndexDockerIO, DockerIO>>
        ELSE <<>>)

NotFound == [found |-> FALSE, username |-> <<>>, password |-> <<>>]

\* the entry config holds under key, decoded: found only when the auth string
\* is non-empty base64 of "username:password"
TryKey(config, key) ==
    IF key \notin DOMAIN config.auths THEN NotFound
    ELSE IF config.auths[key] = "" THEN NotFound
    ELSE IF DecodeString(config.auths[key]).err # None THEN NotFound
    ELSE Bind(SplitN2(DecodeString(config.auths[key]).text, ":"), LAMBDA parts :
            IF Len(parts) = 2
            THEN [found |-> TRUE, username |-> parts[1], password |-> parts[2]]
            ELSE NotFound)

RECURSIVE TryKeysLast(_, _, _)
\* a loop over registryKeys that returns the last key that qualifies
TryKeysLast(config, keys, i) ==
    IF i > Len(keys) THEN NotFound
    ELSE IF TryKeysLast(config, keys, i + 1).found THEN TryKeysLast(config, keys, i + 1)
    ELSE TryKey(config, keys[i])

RECURSIVE TryKeys(_, _, _)
\* the loop over registryKeys from position i on
TryKeys(config, keys, i) ==
    IF i > Len(keys) THEN NotFound
    ELSE IF TryKey(config, keys[i]).found THEN TryKey(config, keys[i])
    ELSE TryKeys(config, keys, i + 1)

getDockerCredentials(config, host) ==
    IF ~config.readable \/ ~config.json THEN NotFound
    ELSE TryKeys(config, registryKeys(host), 1)

\* repo.Client is left as it is (anonymous)
NoCredential == [set |-> FALSE]

\* auth.StaticCredential(host, auth.Credential{Username, Password})
StaticCredential(host, username, password) ==
    [set |-> TRUE, host |-> host, username |-> username, password |-> password]

\* the credential chosen from the explicit pair and the docker config entry
Choose(host, username, password, docker) ==
    IF (username = <<>> \/ password = <<>>) /\ docker.found
    THEN IF docker.username # <<>> /\ docker.password # <<>>
         THEN StaticCredential(host, docker.username, docker.password)
         ELSE NoCredential
    ELSE IF username # <<>> /\ password # <<>>
    THEN StaticCredential(host, username, password)
    ELSE NoCredential

\* setupAuth preferring the docker config entry over the explicit pair
setupAuthDockerFirst(config, host, username, password) ==
    IF getDockerCredentials(config, host).found
    THEN StaticCredential(host, getDockerCredentials(config, host).username,
                          getDockerCredentials(config, host).password)
    ELSE IF username # <<>> /\ password # <<>>
    THEN StaticCredential(host, username, password)
    ELSE NoCredential

\* setupAuth of package bolter (Pull and Run)
setupAuth(config, host, username, password) ==
    IF username = <<>> \/ password = <<>>
    THEN Choose(host, username, password, getDockerCredentials(config, host))
    ELSE StaticCredential(host, username, password)

\* the credential block of runPush
runPushAuth(config, host, username, password) ==
    IF username = <<>> \/ password = <<>>
    THEN Choose(host, username, password, getDockerCredentials(config, host))
    ELSE StaticCredential(host, username, password)

\* the credential block of runList
runListAuth(config, host, username, password) ==
    IF username = <<>> \/ password = <<>>
    THEN Choose(host, username, password, getDockerCredentials(config, host))
    ELSE StaticCredential(host, username, password)

\* one invocation: the flags, the reference and the config file it finds
AuthInputs ==
    {[phase |-> "input", op |-> "none", user |-> u, pass |-> pw, ref |-> r, config |-> c,
      client |-> NoCredential] :
        u \in UserArgs, pw \in PasswordArgs, r \in AuthRefs, c \in DockerConfigs}

InitAuth ==
    /\ registry = {ForeignManifest, Raw(BytesForeign), Raw(ConfigBytes)}
    /\ tags = [t \in {Repo.Reference} |-> ForeignDesc]
    /\ fs = [p \in FsPaths |-> NoFile]
    /\ meta = [p \in MetaPaths |-> [exists |-> FALSE]]
    /\ push = IdlePush
    /\ pushes = 0
    /\ ops = 0
    /\ faults = 0
    /\ lastOp = NoOp
    /\ tagSrc = [set |-> FALSE, binaries |-> <<>>, read |-> <<>>]
    /\ pulledOk = {}
    /\ slotFilled = {}
    /\ auth \in AuthInputs
    /\ find = NoFind
    /\ media = NoMedia
    /\ race = NoRace
    /\ slot = NoSlot

\* the command has built its registry client
Authenticated(op, client) ==
    /\ auth.phase = "input"
    /\ auth' = [auth EXCEPT !.phase = "done", !.op = op, !.client = client]
    /\ UNCHANGED <<registry, tags, fs, meta, push, pushes, ops, faults, lastOp, tagSrc,
                   pulledOk, slotFilled, find, media, race, slot>>

AuthPush ==
    Authenticated("push", runPushAuth(auth.config, createRepository(auth.ref).Registry,
                                      auth.user, auth.pass))

AuthPull ==
    Authenticated("pull", setupAuth(auth.config, createRepository(auth.ref).Registry,
                                    auth.user, auth.pass))

AuthRun ==
    Authenticated("run", setupAuth(auth.config, createRepository(auth.ref).Registry,
                                   auth.user, auth.pass))

AuthList ==
    Authenticated("list", runListAuth(auth.config, createRepository(auth.ref).Registry,
                                      auth.user, auth.pass))

NextAuth ==
    \/ AuthPush
    \/ AuthPull
    \/ AuthRun
    \/ AuthList

SpecAuth == InitAuth /\ [][NextAuth]_vars

---------------------------------------------------------------------------
(* Platform resolution against an index                                    *)

MaxEntries == 3     \* manifest descriptors in one index

\* a manifest descriptor as an index lists it: for a platform, or with no
\* platform field
EntryFor(data, goos, goarch) ==
    ManifestDesc(ManifestDoc(ConfigDesc, <<BinaryDesc([os |-> goos, arch |-> goarch], data)>>),
                 goos, goarch)

FindEntries ==
    { ForeignDesc,
      EntryFor(BytesA, <<"linux">>, <<"amd64">>),
      EntryFor(BytesB, <<"linux">>, <<"amd64">>),
      EntryFor(BytesA, <<"linux">>, <<"arm64">>),
      EntryFor(BytesB, <<"Linux">>, <<"amd64">>) }

FindTargets ==
    { [os |-> <<"linux">>, arch |-> <<"amd64">>],
      [os |-> <<"linux">>, arch |-> <<"arm64">>],
      [os |-> <<"darwin">>, arch |-> <<"amd64">>] }

FindInputs ==
    {[done |-> FALSE, manifests |-> m, os |-> t.os, arch |-> t.arch, fault |-> "none",
      result |-> [err |-> None, desc |-> NoDesc]] :
        m \in SeqsUpTo(FindEntries, MaxEntries), t \in FindTargets}

InitFind ==
    /\ find \in FindInputs
    /\ media = NoMedia
    /\ race = NoRace
    /\ slot = NoSlot
    /\ registry = {IndexDoc(find.manifests)}
    /\ tags = [t \in {Repo.Reference} |-> IndexDesc(IndexDoc(find.manifests))]
    /\ fs = [p \in FsPaths |-> NoFile]
    /\ meta = [p \in MetaPaths |-> [exists |-> FALSE]]
    /\ push = IdlePush
    /\ pushes = 0
    /\ ops = 0
    /\ faults = 0
    /\ lastOp = NoOp
    /\ tagSrc = [set |-> FALSE, binaries |-> <<>>, read |-> <<>>]
    /\ pulledOk = {}
    /\ slotFilled = {}
    /\ auth = NoAuth

\* findManifestForPlatform on the tagged index
FindManifest ==
    /\ ~find.done
    /\ \E fault \in {"none", "fetchIndex"} :
        find' = [find EXCEPT !.done = TRUE, !.fault = fault,
                             !.result = findManifestForPlatform(registry,
                                            tags[Repo.Reference], find.os, find.arch, fault)]
    /\ UNCHANGED <<registry, tags, fs, meta, push, pushes, ops, faults, lastOp, tagSrc,
                   pulledOk, slotFilled, auth, media, race, slot>>

NextFind == FindManifest

SpecFind == InitFind /\ [][NextFind]_vars

---------------------------------------------------------------------------
(* Repeated pushes to one reference: the push command run again, step by   *)
(* step, against the registry as the earlier push left it                  *)

MaxRepushes == 2    \* push commands run one after the other

StartRepush(args) ==
    /\ push.pc = "idle"
    /\ pushes < MaxRepushes
    /\ push' = BeginPush(args, registry, tags)
    /\ pushes' = pushes + 1
    /\ lastOp' = NoOp
    /\ UNCHANGED <<registry, tags, fs, meta, ops, faults, tagSrc, pulledOk, slotFilled,
                   auth, find, media, race, slot>>

NextRepush ==
    \/ \E args \in PushArgs : StartRepush(args)
    \/ PushBinaryStep
    \/ CreateIndexStep
    \/ TagStep
    \/ PushExit

SpecRepush == Init /\ [][NextRepush]_vars

---------------------------------------------------------------------------
(* The cache over several commands: pull and run against a registry that   *)
(* holds a pushed index, with what each command found and met on record    *)

MaxCacheOps == 3    \* pull/run commands executed one after the other

\* the --bin arguments of the push that filled the registry
PushedArgs ==
    << <<"linux", "-", "musl", "/", "amd64", "=", "appA">>,
       <<"linux", "/", "musl", "-", "amd64", "=", "appB">> >>

\* runPush for PushedArgs with every registry call answered ok
PushedIndex ==
    LET binaries == parsePlatformMappings(PushedArgs).binaries
        first == pushBinary({ForeignManifest, Raw(BytesForeign), Raw(ConfigBytes)}, {},
                            binaries[1], "ok", FALSE)
        second == pushBinary(first.registry, first.store, binaries[2], "ok", FALSE)
    IN  createAndPushIndex(second.registry, second.store, <<first.desc, second.desc>>,
                           "ok", FALSE)

\* filepath.Dir(path)
Dir(path) ==
    LET slashes == {i \in 1..Len(path) : path[i] = "/"}
    IN  IF slashes = {} THEN <<".">>
        ELSE SubSeq(path, 1, (CHOOSE i \in slashes : \A j \in slashes : j <= i) - 1)

\* runCached: one entry for every metadata.json whose record names a binary
\* that exists beside it
runCached(files, metas) ==
    {[os |-> metas[path].os, architecture |-> metas[path].architecture,
      digest |-> metas[path].digest,
      binaryPath |-> JoinPath(<<Dir(path),
                                Title(metas[path].os, metas[path].architecture)>>)] :
        path \in {q \in DOMAIN metas :
                    /\ metas[q].exists
                    /\ JoinPath(<<Dir(q), Title(metas[q].os, metas[q].architecture)>>)
                          \in DOMAIN files
                    /\ files[JoinPath(<<Dir(q), Title(metas[q].os,
                                                      metas[q].architecture)>>)].exists}}

\* what is kept of a command: its report, the failure the environment held
\* ready, the cache slot and the metadata as the command found them, and
\* whether every command so far returned success
CacheReport(o, fault, files, metas, before) ==
    [op |-> o.op, os |-> o.os, arch |-> o.arch, cache |-> o.cache, result |-> o.result,
     calls |-> o.calls, path |-> o.path, top |-> o.top, hit |-> o.hit,
     delivered |-> o.delivered, bytes |-> o.bytes, clean |-> fault = "none",
     fault |-> fault,
     slotBefore |-> files[getCachePathForRef(CacheDirArg, Repo.Registry, Repo.Repository,
                                             Repo.Reference, o.os, o.arch)],
     metaBefore |-> metas,
     allOk |-> (before.op = "none" \/ before.allOk) /\ o.result = "ok"]

InitCache ==
    /\ registry = PushedIndex.registry
    /\ tags \in {[t \in {Repo.Reference} |-> ForeignDesc],
                 [t \in {Repo.Reference} |-> PushedIndex.desc]}
    /\ fs = [p \in FsPaths |-> NoFile]
    /\ meta = [p \in MetaPaths |-> [exists |-> FALSE]]
    /\ push = IdlePush
    /\ pushes = 0
    /\ ops = 0
    /\ faults = 0
    /\ lastOp = NoOp
    /\ tagSrc = [set |-> FALSE, binaries |-> <<>>, read |-> <<>>]
    /\ pulledOk = {}
    /\ slotFilled = {}
    /\ auth = NoAuth
    /\ find = NoFind
    /\ media = NoMedia
    /\ race = NoRace
    /\ slot = NoSlot

\* bolter pull / bolter.Pull
CachePull ==
    /\ ops < MaxCacheOps
    /\ \E platform \in PlatformArgs, output \in OutputArgs, useCache \in BOOLEAN,
          fault \in FaultsLeft(faults) :
       \E written \in WrittenFor(fault) :
        \E o \in {Pull(registry, tags, fs, meta, RefArg, platform, output, useCache,
                       fault, written)} :
            /\ fs' = o.fs
            /\ meta' = o.meta
            /\ lastOp' = CacheReport(o, fault, fs, meta, lastOp)
            /\ faults' = IF fault = "none" THEN faults ELSE faults + 1
    /\ ops' = ops + 1
    /\ UNCHANGED <<registry, tags, push, pushes, tagSrc, pulledOk, slotFilled,
                   auth, find, media, race, slot>>

\* bolter run / bolter.Run
CacheRun ==
    /\ ops < MaxCacheOps
    /\ \E platform \in PlatformArgs, noCache \in BOOLEAN, fault \in FaultsLeft(faults) :
       \E written \in WrittenFor(fault) :
        \E o \in {Run(registry, tags, fs, meta, RefArg, platform, noCache, fault, written)} :
            /\ fs' = o.fs
            /\ meta' = o.meta
            /\ lastOp' = CacheReport(o, fault, fs, meta, lastOp)
            /\ faults' = IF fault = "none" THEN faults ELSE faults + 1
    /\ ops' = ops + 1
    /\ UNCHANGED <<registry, tags, push, pushes, tagSrc, pulledOk, slotFilled,
                   auth, find, media, race, slot>>

NextCache ==
    \/ CachePull
    \/ CacheRun

SpecCache == InitCache /\ [][NextCache]_vars

---------------------------------------------------------------------------
(* The media-type mapping applied to a platform                            *)

\* operating systems and architectures a binding may name
MediaOS ==
    {<<"js">>, <<"wasip1">>, <<"windows">>, <<"darwin">>, <<"linux">>, <<"freebsd">>,
     <<"openbsd">>, <<"netbsd">>, <<"dragonfly">>, <<"solaris">>, <<"illumos">>,
     <<"plan9">>, <<"aix">>, <<"android">>, <<"Linux">>, <<"linux", "-", "musl">>, <<>>}

MediaArch == {<<"amd64">>, <<"arm64">>, <<"wasm">>, <<"WASM">>, <<>>}

InitMedia ==
    /\ registry = {ForeignManifest, Raw(BytesForeign), Raw(ConfigBytes)}
    /\ tags = [t \in {Repo.Reference} |-> ForeignDesc]
    /\ fs = [p \in FsPaths |-> NoFile]
    /\ meta = [p \in MetaPaths |-> [exists |-> FALSE]]
    /\ push = IdlePush
    /\ pushes = 0
    /\ ops = 0
    /\ faults = 0
    /\ lastOp = NoOp
    /\ tagSrc = [set |-> FALSE, binaries |-> <<>>, read |-> <<>>]
    /\ pulledOk = {}
    /\ slotFilled = {}
    /\ auth = NoAuth
    /\ find = NoFind
    /\ media \in {[done |-> FALSE, os |-> goos, arch |-> goarch, result |-> ""] :
                    goos \in MediaOS, goarch \in MediaArch}
    /\ race = NoRace
    /\ slot = NoSlot

\* pushBinary asks for the media type of the binding's platform
MapMediaType ==
    /\ ~media.done
    /\ media' = [media EXCEPT !.done = TRUE,
                              !.result = getMediaTypeForPlatform(media.os, media.arch)]
    /\ UNCHANGED <<registry, tags, fs, meta, push, pushes, ops, faults, lastOp, tagSrc,
                   pulledOk, slotFilled, auth, find, race, slot>>

NextMedia == MapMediaType

SpecMedia == InitMedia /\ [][NextMedia]_vars

---------------------------------------------------------------------------
(* Two downloads into one cache slot.  pullBinary opens the slot with      *)
(* os.Create and copies the layer into it chunk by chunk; two invocations  *)
(* hold no lock, so their steps interleave.  Each has its own open file    *)
(* with its own offset; a write past the end leaves a hole of zero bytes.  *)

Writers == {1, 2}

\* the layers the two invocations download
RaceData == {BytesA, BytesB, BytesForeign}

Zero == "0x00"      \* a byte of a hole

\* the file's bytes after chunk is written at offset off
WriteAt(data, off, chunk) ==
    [i \in 1..(IF Len(data) > off + Len(chunk) THEN Len(data) ELSE off + Len(chunk)) |->
        IF i > off /\ i <= off + Len(chunk) THEN chunk[i - off]
        ELSE IF i <= Len(data) THEN data[i]
        ELSE Zero]

InitRace ==
    /\ registry = {ForeignManifest, Raw(BytesForeign), Raw(ConfigBytes)}
    /\ tags = [t \in {Repo.Reference} |-> ForeignDesc]
    /\ fs = [p \in FsPaths |-> NoFile]
    /\ meta = [p \in MetaPaths |-> [exists |-> FALSE]]
    /\ push = IdlePush
    /\ pushes = 0
    /\ ops = 0
    /\ faults = 0
    /\ lastOp = NoOp
    /\ tagSrc = [set |-> FALSE, binaries |-> <<>>, read |-> <<>>]
    /\ pulledOk = {}
    /\ slotFilled = {}
    /\ auth = NoAuth
    /\ find = NoFind
    /\ media = NoMedia
    /\ race \in {[started |-> TRUE,
                   file |-> f,
                   probe |-> [pc |-> "idle"],
                   w |-> [i \in Writers |->
                            [pc |-> "fetched", data |-> IF i = 1 THEN d1 ELSE d2,
                             off |-> 0]]] :
                    d1 \in RaceData, d2 \in RaceData,
                    f \in {NoFile, File(BytesForeign, TRUE)}}
    /\ slot = NoSlot

\* os.Create(output) by writer i: the file is created or truncated, the
\* writer's offset is 0
RaceCreate(i) ==
    /\ race.started
    /\ race.w[i].pc = "fetched"
    /\ race' = [race EXCEPT !.file = File(<<>>, IF @.exists THEN @.exec ELSE FALSE),
                            !.w[i].pc = "copying"]
    /\ UNCHANGED <<registry, tags, fs, meta, push, pushes, ops, faults, lastOp, tagSrc,
                   pulledOk, slotFilled, auth, find, media, slot>>

\* one Write of io.Copy by writer i: the next n bytes of its layer go to the
\* file at the writer's offset
RaceWrite(i, n) ==
    /\ race.started
    /\ race.w[i].pc = "copying"
    /\ n <= Len(race.w[i].data) - race.w[i].off
    /\ race' = [race EXCEPT
                  !.file = File(WriteAt(@.data, race.w[i].off,
                                        SubSeq(race.w[i].data, race.w[i].off + 1,
                                               race.w[i].off + n)),
                                @.exec),
                  !.w[i].off = @ + n]
    /\ UNCHANGED <<registry, tags, fs, meta, push, pushes, ops, faults, lastOp, tagSrc,
                   pulledOk, slotFilled, auth, find, media, slot>>

\* io.Copy of writer i reaches the end of the layer and pullBinary returns
\* nil; the caller's os.Chmod makes the file executable
RaceFinish(i) ==
    /\ race.started
    /\ race.w[i].pc = "copying"
    /\ race.w[i].off = Len(race.w[i].data)
    /\ race' = [race EXCEPT !.file = File(@.data, TRUE), !.w[i].pc = "done"]
    /\ UNCHANGED <<registry, tags, fs, meta, push, pushes, ops, faults, lastOp, tagSrc,
                   pulledOk, slotFilled, auth, find, media, slot>>

\* a further Run with the cache enabled, for the same key: os.Stat on the
\* slot, and on a hit executeBinary, which runs the file if it is executable.
\* copying: some writer had created the file and not yet written all bytes
RaceProbe ==
    /\ race.started
    /\ race.probe.pc = "idle"
    /\ race' = [race EXCEPT !.probe =
                  [pc |-> "done",
                   hit |-> race.file.exists,
                   executed |-> race.file.exists /\ race.file.exec,
                   bytes |-> IF race.file.exists THEN race.file.data ELSE <<>>,
                   copying |-> {i \in Writers :
                                  /\ race.w[i].pc = "copying"
                                  /\ race.w[i].off < Len(race.w[i].data)}]]
    /\ UNCHANGED <<registry, tags, fs, meta, push, pushes, ops, faults, lastOp, tagSrc,
                   pulledOk, slotFilled, auth, find, media, slot>>

NextRace ==
    \/ \E i \in Writers :
        \/ RaceCreate(i)
        \/ \E n \in 1..MaxChunk : RaceWrite(i, n)
        \/ RaceFinish(i)
    \/ RaceProbe

SpecRace == InitRace /\ [][NextRace]_vars

---------------------------------------------------------------------------
(* Pull and run against a tag that other clients of the registry move: to  *)
(* a manifest, to an index, to a manifest without layers, to a manifest of *)
(* a media type the code does not support, or away                         *)

MaxRetags == 1      \* times another client moves the tag
MaxResolveOps == 2  \* pull/run commands executed while the tag moves

\* a manifest with an empty layers list
EmptyManifest == ManifestDoc(ConfigDesc, <<>>)

EmptyDesc ==
    [mediaType |-> MediaTypeImageManifest,
     digest |-> FromBytes(EmptyManifest),
     platform |-> NilPlatform]

\* a manifest in Docker's format, which Pull and Run reject by its media type
DockerManifest ==
    [ForeignManifest EXCEPT !.mediaType = "application/vnd.docker.distribution.manifest.v2+json"]

DockerDesc ==
    [mediaType |-> "application/vnd.docker.distribution.manifest.v2+json",
     digest |-> FromBytes(DockerManifest),
     platform |-> NilPlatform]

\* what repo.Resolve may find under the tag (NoDesc: the tag is not there)
ResolveTops == {ForeignDesc, PushedIndex.desc, EmptyDesc, DockerDesc, NoDesc}

InitResolve ==
    /\ registry = PushedIndex.registry \cup {EmptyManifest, DockerManifest}
    /\ tags \in {[t \in {Repo.Reference} |-> d] : d \in ResolveTops}
    /\ fs = [p \in FsPaths |-> NoFile]
    /\ meta = [p \in MetaPaths |-> [exists |-> FALSE]]
    /\ push = IdlePush
    /\ pushes = 0
    /\ ops = 0
    /\ faults = 0
    /\ lastOp = NoOp
    /\ tagSrc = [set |-> FALSE, binaries |-> <<>>, read |-> <<>>]
    /\ pulledOk = {}
    /\ slotFilled = {}
    /\ auth = NoAuth
    /\ find = NoFind
    /\ media = NoMedia
    /\ race = NoRace
    /\ slot = NoSlot

\* another client's push or delete moves the tag (counted in pushes)
Retag ==
    /\ pushes < MaxRetags
    /\ \E d \in ResolveTops \ {tags[Repo.Reference]} :
          tags' = [tags EXCEPT ![Repo.Reference] = d]
    /\ pushes' = pushes + 1
    /\ UNCHANGED <<registry, fs, meta, push, ops, faults, lastOp, tagSrc, pulledOk,
                   slotFilled, auth, find, media, race, slot>>

NextResolve ==
    \/ ops < MaxResolveOps /\ CachePull
    \/ ops < MaxResolveOps /\ CacheRun
    \/ Retag

SpecResolve == InitResolve /\ [][NextResolve]_vars

---------------------------------------------------------------------------
(* The cache layout for two invocations: each builds its key from its      *)
(* reference and its --platform string and maps it to the path of its slot *)

\* registry hosts, repositories and tags a reference may name
SlotRegistries ==
    {<<"reg", ".", "io">>, <<"reg", ".", "io", ":", "5000">>,
     <<"reg", ".", "io", "_", "5000">>}

SlotRepositories == {<<"app">>, <<"team", "/", "app">>, <<"team", "_", "app">>}

SlotRefs ==
    {reg \o <<"/">> \o repository \o <<":">> \o tag :
        reg \in SlotRegistries, repository \in SlotRepositories, tag \in {<<"v1">>, <<"v2">>}}

\* the key of an invocation: createRepository(ref) and parsePlatform(platform)
KeyFor(ref, platform) ==
    [registry |-> createRepository(ref).Registry,
     repository |-> createRepository(ref).Repository,
     tag |-> createRepository(ref).Reference,
     os |-> parsePlatform(platform).os,
     arch |-> parsePlatform(platform).arch]

\* cachedBinary of Pull and Run for a key
PathFor(key) ==
    getCachePathForRef(CacheDirArg, key.registry, key.repository, key.tag, key.os, key.arch)

InitSlot ==
    /\ registry = {ForeignManifest, Raw(BytesForeign), Raw(ConfigBytes)}
    /\ tags = [t \in {Repo.Reference} |-> ForeignDesc]
    /\ fs = [p \in FsPaths |-> NoFile]
    /\ meta = [p \in MetaPaths |-> [exists |-> FALSE]]
    /\ push = IdlePush
    /\ pushes = 0
    /\ ops = 0
    /\ faults = 0
    /\ lastOp = NoOp
    /\ tagSrc = [set |-> FALSE, binaries |-> <<>>, read |-> <<>>]
    /\ pulledOk = {}
    /\ slotFilled = {}
    /\ auth = NoAuth
    /\ find = NoFind
    /\ media = NoMedia
    /\ race = NoRace
    /\ slot \in {[done |-> FALSE, a |-> KeyFor(refA, platformA),
                   b |-> KeyFor(refB, platformB), pathA |-> <<>>, pathB |-> <<>>] :
                    refA \in SlotRefs, refB \in SlotRefs,
                    platformA \in PlatformArgs, platformB \in PlatformArgs}

\* both invocations compute the path of their cache slot
MapSlots ==
    /\ ~slot.done
    /\ slot' = [slot EXCEPT !.done = TRUE, !.pathA = PathFor(slot.a),
                            !.pathB = PathFor(slot.b)]
    /\ UNCHANGED <<registry, tags, fs, meta, push, pushes, ops, faults, lastOp, tagSrc,
                   pulledOk, slotFilled, auth, find, media, race>>

NextSlot == MapSlots

SpecSlot == InitSlot /\ [][NextSlot]_vars

---------------------------------------------------------------------------
(* Properties                                                              *)

KeyOf(b) == [os |-> b.os, arch |-> b.arch]

\* the platform of the pull/run that has just returned
LastKey == [os |-> lastOp.os, arch |-> lastOp.arch]

DistinctKeys(binaries) ==
    \A i, j \in 1..Len(binaries) : KeyOf(binaries[i]) = KeyOf(binaries[j]) => i = j

\* the cache slot of a platform under the reference
SlotOf(key) ==
    getCachePathForRef(CacheDirArg, Repo.Registry, Repo.Repository, Repo.Reference,
                       key.os, key.arch)

\* the manifest a descriptor addresses is in the registry together with the
\* layer holding data
HoldsBinary(reg, desc, data) ==
    \E m \in Fetch(reg, desc) :
        /\ m.kind = "manifest"
        /\ Len(m.layers) = 1
        /\ m.layers[1].digest = FromBytes(Raw(data))
        /\ Raw(data) \in reg

Indexes(reg) == {c \in reg : c.kind = "index"}

\* C1: after a push of bindings with pairwise distinct (os, arch) keys has
\* moved the tag, every Pull of the reference for a pushed platform that
\* returns success has written an output file whose bytes are the bytes read
\* from the file bound to that platform when it was pushed.
C1_RoundTrip ==
    (/\ lastOp.op = "pull"
     /\ lastOp.result = "ok"
     /\ tagSrc.set
     /\ DistinctKeys(tagSrc.binaries))
    => \A i \in 1..Len(tagSrc.binaries) :
          KeyOf(tagSrc.binaries[i]) = LastKey =>
              /\ lastOp.delivered
              /\ lastOp.bytes = tagSrc.read[i]
              /\ fs[lastOp.path].exists
              /\ fs[lastOp.path].data = tagSrc.read[i]

C1_Witness ==
    /\ lastOp.op = "pull"
    /\ lastOp.result = "ok"
    /\ tagSrc.set
    /\ Len(tagSrc.binaries) = 2
    /\ DistinctKeys(tagSrc.binaries)
    /\ KeyOf(tagSrc.binaries[2]) = LastKey
    /\ tagSrc.read[2] # tagSrc.read[1]
    /\ fs[lastOp.path].data = tagSrc.read[2]

\* C2: when the tag's index holds manifests for two different platforms A
\* and B pushed with different bytes, no successful Pull or Run for A delivers
\* the bytes pushed for B.
C2_NeverOtherPlatform ==
    (/\ lastOp.op \in {"pull", "run"}
     /\ lastOp.result = "ok"
     /\ tagSrc.set)
    => \A a, b \in 1..Len(tagSrc.binaries) :
          (/\ KeyOf(tagSrc.binaries[a]) = LastKey
           /\ KeyOf(tagSrc.binaries[b]) # LastKey
           /\ tagSrc.read[a] # tagSrc.read[b])
          => lastOp.bytes # tagSrc.read[b]

\* C3: a failed push of platform k leaves the manifests of the platforms
\* before k in the registry, no index pushed and the tag where it was; and
\* the tag moves only in the Tag call of a push all of whose manifests and
\* whose index are in the registry, to that index.
C3_FailedPlatform ==
    (/\ push.pc = "failed"
     /\ push.binaries # <<>>
     /\ Len(push.descs) < Len(push.binaries))
    => /\ Len(push.descs) = push.i - 1
       /\ \A j \in 1..Len(push.descs) :
             /\ push.descs[j].platform.os = push.binaries[j].os
             /\ push.descs[j].platform.architecture = push.binaries[j].arch
             /\ HoldsBinary(registry, push.descs[j], push.read[j])
       /\ push.indexDesc = NoDesc
       /\ Indexes(registry) = Indexes(push.regBefore)
       /\ tags = push.tagsBefore

C3_TagMove ==
    tags' # tags =>
        /\ push.pc = "tag"
        /\ push'.pc = "done"
        /\ Len(push.descs) = Len(push.binaries)
        /\ \A j \in 1..Len(push.descs) : HoldsBinary(registry, push.descs[j], push.read[j])
        /\ Fetch(registry, push.indexDesc) = {IndexDoc(push.descs)}
        /\ tags' = [tags EXCEPT ![Repo.Reference] = push.indexDesc]

\* C3: both parts together, the state of a failed push and the step that
\* moves the tag.
C3_TagOnlyOnFullSuccess == []C3_FailedPlatform /\ [][C3_TagMove]_vars

C3_Witness ==
    /\ push.pc = "failed"
    /\ Len(push.binaries) = 2
    /\ Len(push.descs) = 1
    /\ push.calls = 2
    /\ HoldsBinary(registry, push.descs[1], push.read[1])
    /\ tags = push.tagsBefore

C5_ExplicitCredentialsWin ==
    (/\ auth.phase = "done"
     /\ auth.user # <<>>
     /\ auth.pass # <<>>)
    => /\ auth.client.set
       /\ auth.client.username = auth.user
       /\ auth.client.password = auth.pass
       /\ auth.client.host = createRepository(auth.ref).Registry

C5_Witness ==
    /\ auth.phase = "done"
    /\ auth.op = "run"
    /\ auth.user # <<>>
    /\ auth.pass # <<>>
    /\ getDockerCredentials(auth.config, createRepository(auth.ref).Registry).found
    /\ auth.client.username = auth.user

\* C6: when the tag resolves to a descriptor of media type manifest, a Pull
\* or Run that meets no failure of the environment (and, for a Pull without
\* cache, names an output path) succeeds for every platform string and
\* delivers the first layer of that manifest.
C6_ManifestIsTheAnswer ==
    (/\ lastOp.op \in {"pull", "run"}
     /\ lastOp.top = MediaTypeImageManifest
     /\ lastOp.clean
     /\ lastOp.result # "output path required")
    => /\ lastOp.result = "ok"
       /\ \E m \in Fetch(registry, tags[Repo.Reference]) :
             \E layer \in Fetch(registry, m.layers[1]) : lastOp.bytes = layer.data

C6_Witness ==
    /\ lastOp.op = "run"
    /\ lastOp.top = MediaTypeImageManifest
    /\ lastOp.clean
    /\ lastOp.result = "ok"
    /\ LastKey = [os |-> <<"linux">>, arch |-> <<"musl", "-", "amd64">>]
    /\ lastOp.bytes = BytesForeign

\* C7: after a successful push the tag points to the index descriptor, and
\* the index lists one manifest descriptor per binding, in the order of the
\* bindings, each with the (os, arch) of its binding and the binding's bytes.
C7_IndexListsBindings ==
    push.pc = "done" =>
        /\ tags[Repo.Reference] = push.indexDesc
        /\ tags[Repo.Reference].mediaType = MediaTypeImageIndex
        /\ \E index \in Fetch(registry, tags[Repo.Reference]) :
              /\ index.kind = "index"
              /\ Len(index.manifests) = Len(push.binaries)
              /\ \A i \in 1..Len(push.binaries) :
                    /\ index.manifests[i].mediaType = MediaTypeImageManifest
                    /\ ~index.manifests[i].platform.nil
                    /\ index.manifests[i].platform.os = push.binaries[i].os
                    /\ index.manifests[i].platform.architecture = push.binaries[i].arch
                    /\ HoldsBinary(registry, index.manifests[i],
                                   ReadFile(push.binaries[i].path).data)

C7_Witness ==
    /\ push.pc = "done"
    /\ Len(push.binaries) = 2
    /\ KeyOf(push.binaries[1]) # KeyOf(push.binaries[2])
    /\ push.read[1] # push.read[2]
    /\ tags[Repo.Reference] = push.indexDesc

\* C8: a push whose bindings name the same (os, arch) key more than once
\* makes no registry call, leaves registry and tag as they were, and does
\* not succeed.
C8_DuplicateKeysRejected ==
    (/\ push.pc # "idle"
     /\ ~DistinctKeys(push.binaries))
    => /\ push.calls = 0
       /\ push.pc # "done"
       /\ registry = push.regBefore
       /\ tags = push.tagsBefore

\* C9: a push that fails on a configuration error (a binding with invalid
\* syntax, a missing or an unreadable input file) has made no registry call.
C9_ConfigErrorsBeforeNetwork ==
    (/\ push.pc = "failed"
     /\ push.err \in {"invalid platform format", "file not found", "read failed"})
    => /\ push.calls = 0
       /\ registry = push.regBefore

\* the entries of the index whose platform is present and equals the target
Matching ==
    {i \in 1..Len(find.manifests) :
        /\ ~find.manifests[i].platform.nil
        /\ find.manifests[i].platform.os = find.os
        /\ find.manifests[i].platform.architecture = find.arch}

\* C10: resolution against an index returns the first entry, in index
\* order, whose platform is present and equals the target on os and
\* architecture; entries without platform are skipped; with no such entry
\* the result is the not-found failure; of two entries for one key the
\* earlier is returned.
C10_FirstMatchInOrder ==
    (find.done /\ find.fault = "none")
    => IF Matching = {}
       THEN find.result.err = "no manifest found" /\ find.result.desc = NoDesc
       ELSE /\ find.result.err = None
            /\ \E i \in Matching :
                  /\ \A j \in Matching : i <= j
                  /\ find.result.desc = find.manifests[i]

C10_Witness ==
    /\ find.done
    /\ find.fault = "none"
    /\ Len(find.manifests) = 3
    /\ find.manifests[1].platform.nil
    /\ Matching = {2, 3}
    /\ find.manifests[2] # find.manifests[3]
    /\ find.result.desc = find.manifests[2]

\* the registry calls a push has made so far were all answered with ok or
\* "already exists", except possibly the last
AnswersBeforeLast ==
    \A i \in 1..Len(push.answers) - 1 : push.answers[i] \in {"ok", "exists"}

C11_Answers ==
    /\ AnswersBeforeLast
    /\ push.pc = "done" => \A i \in 1..Len(push.answers) : push.answers[i] \in {"ok", "exists"}
    /\ (push.answers # <<>> /\ push.answers[Len(push.answers)] = "error")
          => push.pc = "failed"
    /\ (push.pc = "failed" /\ push.answers # <<>>
          /\ push.answers[Len(push.answers)] # "error")
          => push.err = "read failed"

C11_SameTag ==
    (/\ push.pc = "tag"
     /\ push'.pc = "done"
     /\ tagSrc.set
     /\ tagSrc.binaries = push.binaries
     /\ tagSrc.read = push.read)
    => tags' = tags

\* C11: a push whose registry calls are answered "already exists" goes on
\* and succeeds; an answer that is any other error is the last call of the
\* push, which fails; and a push of the same bindings and bytes as the push
\* that last moved the tag leaves the tag at the same index descriptor.
C11_RepushIdempotent == []C11_Answers /\ [][C11_SameTag]_vars

\* a second push of two bindings has succeeded with every copy answered
\* "already exists", and the tag is where the first push put it
C11_Witness ==
    /\ pushes = 2
    /\ push.pc = "done"
    /\ Len(push.binaries) = 2
    /\ push.answers = <<"exists", "exists", "exists", "ok">>
    /\ tagSrc.binaries = push.binaries
    /\ tags = push.tagsBefore
    /\ tags[Repo.Reference] = push.indexDesc


\* C12: after pull and run commands that all returned success, with no
\* failure of the environment, every binary file in the cache tree is among
\* the entries the cached listing reports, under the platform of its path.
C12_ListingComplete ==
    (lastOp.op # "none" /\ lastOp.allOk /\ faults = 0)
    => \A p \in CachePaths :
          fs[p].exists
          => \E e \in runCached(fs, meta) :
                /\ e.binaryPath = p
                /\ p = SlotOf([os |-> e.os, arch |-> e.architecture])

\* C13: a Pull with caching enabled that finds a binary in the cache slot of
\* its key makes no registry call (no resolve, no fetch).
C13_PullHitMakesNoCall ==
    (lastOp.op = "pull" /\ lastOp.cache /\ lastOp.slotBefore.exists)
    => lastOp.calls = 0

\* the failures of the environment that hit the write of the binary into the
\* cache slot: by Run and by a Pull whose output is the cache path, inside
\* pullBinary; by a Pull with another output, in the copy that follows
WriteIntoSlotFailed ==
    \/ /\ lastOp.op = "run"
       /\ ~lastOp.hit
       /\ lastOp.fault \in {"mkdir", "create", "copy"}
    \/ /\ lastOp.op = "pull"
       /\ lastOp.cache
       /\ lastOp.path = SlotOf(LastKey)
       /\ lastOp.fault \in {"mkdir", "create", "copy"}
    \/ /\ lastOp.op = "pull"
       /\ lastOp.cache
       /\ lastOp.path # <<>>
       /\ lastOp.path # SlotOf(LastKey)
       /\ lastOp.fault \in {"cacheMkdir", "cacheCopy"}

\* C14: a Pull with caching enabled or a Run during which the write of the
\* binary into the cache slot fails returns an error, never success.
C14_SlotWriteFailureIsError ==
    (lastOp.op # "none" /\ WriteIntoSlotFailed) => lastOp.result # "ok"

\* the manifest the registry gives for the platform of the last command
LastSelected == SelectManifest(registry, tags[Repo.Reference], lastOp.os, lastOp.arch, "none")

\* the last command got as far as the metadata write, which failed: a Pull
\* with caching enabled or a Run that downloaded, for a platform the
\* reference resolves for, with the failure on the metadata write
MetaWriteFailed ==
    /\ lastOp.op \in {"pull", "run"}
    /\ lastOp.fault = "meta"
    /\ lastOp.cache \/ lastOp.op = "run"
    /\ ~lastOp.hit
    /\ LastSelected.err = None

\* C15: a Pull or Run whose binary is written and whose metadata write then
\* fails returns success (Run having executed the binary) with the complete
\* executable binary at its destination and the metadata as it was; and a
\* Run with the cache enabled that finds a file in the slot takes the hit
\* path, making no registry call and writing nothing, whether or not a
\* metadata record exists.
C15_MetadataFailureIsSoft ==
    /\ MetaWriteFailed
       => /\ lastOp.result = "ok"
          /\ lastOp.delivered
          /\ CanExecute(fs, lastOp.path)
          /\ HoldsBinary(registry, LastSelected.desc, fs[lastOp.path].data)
          /\ lastOp.bytes = fs[lastOp.path].data
          /\ meta = lastOp.metaBefore
    /\ (lastOp.op = "run" /\ lastOp.cache /\ lastOp.slotBefore.exists)
       => /\ lastOp.hit
          /\ lastOp.calls = 0
          /\ fs[SlotOf(LastKey)] = lastOp.slotBefore
          /\ meta = lastOp.metaBefore

\* a Run has executed a cached binary from a cache that holds no metadata
\* record: the metadata write of the command that cached the binary failed
C15_Witness ==
    /\ lastOp.op = "run"
    /\ lastOp.hit
    /\ lastOp.result = "ok"
    /\ faults = 1
    /\ fs[SlotOf(LastKey)].exists
    /\ \A p \in MetaPaths : ~meta[p].exists

\* C16: a Run with NoCache set never takes the cache-hit path: it calls the
\* registry, and when it returns success it has resolved the reference and
\* fetched manifest and layer (and the index, when the tag names one), the
\* cache slot holds the complete executable layer the registry gives for the
\* platform, whatever the slot held before, and those are the bytes executed.
C16_NoCacheNeverUsesCache ==
    (lastOp.op = "run" /\ ~lastOp.cache)
    => /\ ~lastOp.hit
       /\ lastOp.calls >= 1
       /\ lastOp.result = "ok"
          => /\ lastOp.calls = IF lastOp.top = MediaTypeImageIndex THEN 4 ELSE 3
             /\ LastSelected.err = None
             /\ lastOp.path = SlotOf(LastKey)
             /\ CanExecute(fs, SlotOf(LastKey))
             /\ HoldsBinary(registry, LastSelected.desc, fs[SlotOf(LastKey)].data)
             /\ lastOp.bytes = fs[SlotOf(LastKey)].data

\* a Run with NoCache set has replaced a cached binary by different bytes
\* fetched from the registry and executed them
C16_Witness ==
    /\ lastOp.op = "run"
    /\ ~lastOp.cache
    /\ lastOp.result = "ok"
    /\ lastOp.slotBefore.exists
    /\ lastOp.slotBefore.data # lastOp.bytes
    /\ lastOp.slotBefore.exec
    /\ fs[SlotOf(LastKey)].data = lastOp.bytes

\* the entry under key qualifies: a non-empty auth string that is valid
\* base64 of a text with a colon in it
Qualifies(config, key) ==
    /\ key \in DOMAIN config.auths
    /\ config.auths[key] # ""
    /\ DecodeString(config.auths[key]).err = None
    /\ Contains(DecodeString(config.auths[key]).text, ":")

\* the position of the first candidate key that qualifies, 0 when the file
\* is missing, unreadable or malformed or no candidate qualifies
FirstQualifying(config, keys) ==
    LET Q == {i \in 1..Len(keys) : Qualifies(config, keys[i])}
    IN  IF ~config.readable \/ ~config.json \/ Q = {} THEN 0
        ELSE CHOOSE i \in Q : \A j \in Q : i <= j

\* the client built from the text of an entry: user before the first colon,
\* password after it, anonymous when either is empty
ClientFrom(host, text) ==
    LET i == IndexOf(text, ":", 1)
    IN  IF i > 1 /\ i < Len(text)
        THEN StaticCredential(host, SubSeq(text, 1, i - 1), SubSeq(text, i + 1, Len(text)))
        ELSE NoCredential

\* C17: a command given no complete explicit pair builds its client from the
\* first candidate key, in the order of registryKeys, whose entry qualifies,
\* skipping entries that are empty, malformed base64 or without a colon; with
\* no config file, an unreadable or malformed one, or no qualifying entry it
\* completes with the anonymous client.
C17_AmbientCredentials ==
    (auth.phase = "done" /\ (auth.user = <<>> \/ auth.pass = <<>>))
    => LET host == createRepository(auth.ref).Registry
           keys == registryKeys(host)
           k == FirstQualifying(auth.config, keys)
       IN  IF k = 0 THEN auth.client = NoCredential
           ELSE auth.client
                  = ClientFrom(host, DecodeString(auth.config.auths[keys[k]]).text)

\* a command has taken its credentials from a later candidate key, the entry
\* under the first candidate being malformed base64
C17_Witness ==
    /\ auth.phase = "done"
    /\ auth.user = <<>>
    /\ auth.config.json
    /\ LET keys == registryKeys(createRepository(auth.ref).Registry)
       IN  /\ keys[1] \in DOMAIN auth.config.auths
           /\ auth.config.auths[keys[1]] = "%%%"
           /\ FirstQualifying(auth.config, keys) > 1
    /\ auth.client.set
    /\ auth.client.username = <<"carol">>
    /\ auth.client.password = <<"p", ":", "w">>

\* the type the mapping is to give for an operating system that is not WASM
TypeOfOS(goos) ==
    CASE goos = <<"windows">> -> "application/vnd.bolter.windows.exe.v1"
      [] goos = <<"darwin">> -> "application/vnd.bolter.macho.v1"
      [] goos = <<"linux">> -> "application/vnd.bolter.elf.v1"
      [] goos = <<"freebsd">> -> "application/vnd.bolter.elf.v1"
      [] goos = <<"openbsd">> -> "application/vnd.bolter.elf.v1"
      [] goos = <<"netbsd">> -> "application/vnd.bolter.elf.v1"
      [] goos = <<"dragonfly">> -> "application/vnd.bolter.elf.v1"
      [] goos = <<"solaris">> -> "application/vnd.bolter.elf.v1"
      [] goos = <<"illumos">> -> "application/vnd.bolter.elf.v1"
      [] goos = <<"plan9">> -> "application/vnd.bolter.plan9.v1"
      [] goos = <<"aix">> -> "application/vnd.bolter.xcoff.v1"
      [] OTHER -> "application/vnd.bolter.binary.v1"

\* C18: the mapping answers for every (os, arch): the WASM type when arch is
\* "wasm" or os is "js" or "wasip1", whatever the other field is; otherwise
\* the type of the operating system, the generic binary type for an
\* operating system it does not know.
C18_MediaTypeMapping ==
    media.done
    => /\ (media.arch = <<"wasm">> \/ media.os \in {<<"js">>, <<"wasip1">>})
          => media.result = "application/vnd.bolter.wasm.v1"
       /\ ~(media.arch = <<"wasm">> \/ media.os \in {<<"js">>, <<"wasip1">>})
          => media.result = TypeOfOS(media.os)

\* the mapping has answered WASM for a platform whose operating system has a
\* type of its own
C18_Witness ==
    /\ media.done
    /\ media.os = <<"windows">>
    /\ media.arch = <<"wasm">>
    /\ media.result = "application/vnd.bolter.wasm.v1"

\* C19: once both writers have completed their copy successfully, the file
\* in the cache slot holds the complete bytes one of the two downloaded.
C19_LastWriterWins ==
    (race.started /\ \A i \in Writers : race.w[i].pc = "done")
    => \E i \in Writers : race.file.data = race.w[i].data

\* the binary layers the registry holds: the raw contents some manifest
\* lists as a layer
Layers(reg) ==
    {c.data : c \in {r \in reg : /\ r.kind = "raw"
                                 /\ \E m \in reg : /\ m.kind = "manifest"
                                                   /\ \E i \in 1..Len(m.layers) :
                                                        m.layers[i].digest = FromBytes(r)}}

\* C20: a Run that takes the cache-hit path and executes the cached file
\* executes the complete bytes of a binary layer of the registry, also after
\* commands whose download failed midway.
C20_HitExecutesCompleteBinary ==
    (lastOp.op = "run" /\ lastOp.hit /\ lastOp.result = "ok")
    => lastOp.bytes \in Layers(registry)

\* the results of Pull and Run that are resolution errors: the reference
\* does not resolve, the top-level media type is neither index nor manifest,
\* the index has no entry for the platform, the manifest has no layers
ResolutionErrors ==
    {"resolve", "unsupported media type", "no manifest found", "manifest has no layers"}

C21_Frame ==
    (ops' = ops + 1 /\ lastOp'.result \in ResolutionErrors)
    => /\ fs' = fs
       /\ meta' = meta
       /\ ~lastOp'.delivered
       /\ ~lastOp'.hit

\* C21: a Pull or Run that fails with a resolution error leaves every file
\* (cache slots and output path) and every metadata record as it found them,
\* and a Run that fails so has executed nothing.
C21_ResolutionErrorsLeaveCache == [][C21_Frame]_vars

\* a Run has failed on a manifest without layers, after the download path
\* was entered, with a cached binary in its slot, which is still there
C21_Witness ==
    /\ lastOp.op = "run"
    /\ ~lastOp.cache
    /\ lastOp.result = "manifest has no layers"
    /\ lastOp.calls = 2
    /\ lastOp.slotBefore.exists
    /\ lastOp.slotBefore.exec
    /\ fs[SlotOf(LastKey)] = lastOp.slotBefore
    /\ meta = lastOp.metaBefore

\* C22: a Run with the cache enabled that probes a slot while a download
\* into it is under way (file created, not all bytes written) does not take
\* the cache-hit path and does not execute the file.
C22_ProbeMissesWriteInProgress ==
    (race.started /\ race.probe.pc = "done" /\ race.probe.copying # {})
    => /\ ~race.probe.hit
       /\ ~race.probe.executed

\* C23: two keys (registry, repository, tag, os, arch) that differ in some
\* field have different cache paths.
C23_CachePathInjective ==
    (slot.done /\ slot.a # slot.b) => slot.pathA # slot.pathB

=========================================================================
